---- MODULE Spec2Model ----
(***************************************************************************)
(* Model of the vehicle-information scraper's web front end (src/app.py)   *)
(* and of the fetch core it drives (src/vehicle_scraper.py).               *)
(*                                                                         *)
(* The state is the process-wide dict scraping_status, the position of     *)
(* every start_scraping request handler, and the position and locals of    *)
(* every run_scraping_task thread.  Every "with scraping_lock:" block of   *)
(* the source is one atomic action; code that touches only locals is       *)
(* folded into the lock block that follows it.                             *)
(*                                                                         *)
(* Three further specifications share the module and leave the web         *)
(* variables alone: SpecFetch (one get_vehicle_info call on one reply,     *)
(* with the page parsed row by row), SpecPool (process_vehicles on its     *)
(* thread pool) and SpecLock (app.py statement by statement, the lock      *)
(* taken and released explicitly).  SpecForm is the web model with the     *)
(* form's max_workers and delay texts drawn from valid and invalid ones.   *)
(***************************************************************************)
EXTENDS Integers, Sequences, FiniteSets, TLC

\* ------------------------------------------------------------------ bounds
\* number of /start_scraping requests the clients issue (one thread each)
MaxStarts == 2
\* longest raw key list a client submits
MaxKeys == 2

\* vehicle numbers the clients use; keys are opaque, so a submitted list is
\* named in first-seen order (its first key is "A")
Keys == <<"A", "B">>

Requests == 1..MaxStarts

VARIABLES
    scraping_status,   \* app.py:69 the global dict
    rpc,               \* per start request: position in start_scraping
    tpc,               \* per thread: position in run_scraping_task
    vehicle_numbers,   \* per thread: argument of run_scraping_task
    max_workers,       \* per thread: argument of run_scraping_task
    i,                 \* per thread: number of loop iterations finished
    results,           \* per thread: the local list `results`
    stopAt,            \* history: where the thread stood when a stop was accepted
    delay,             \* per thread: argument of run_scraping_task, in tenths of a second
    dispatched,        \* history, per thread: the keys handed to get_vehicle_info, in order
    posted,            \* history, per thread: the key of every requests.post call made, in order
    response,          \* one get_vehicle_info call: what requests.post comes back with
    vehicle_number,    \* one get_vehicle_info call: its argument
    result,            \* one get_vehicle_info call: the value it returned
    self_max_workers,  \* process_vehicles: self.max_workers of the scraper
    future_to_vehicle, \* process_vehicles: the futures, in the order they were submitted
    process_results,   \* process_vehicles: its local list `results`
    scraping_lock,     \* app.py:79 the lock: the function holding it, or "free"
    pc,                \* per function of app.py: the source line it stands at
    status,            \* get_progress: its local copy `status`
    answer,            \* get_progress: the JSON of the answer it returned last
    committed          \* history: scraping_status when the lock was last released

\* the frames of the web application
web ==
    <<scraping_status, rpc, tpc, vehicle_numbers, max_workers, i, results, stopAt, delay,
      dispatched, posted>>

\* the frame of a single get_vehicle_info call made outside the web application
call == <<response, vehicle_number, result>>

\* the frame of a process_vehicles call (the command-line run)
pool == <<self_max_workers, future_to_vehicle, process_results>>

\* the lock and the positions of the functions that take it, line by line
locking == <<scraping_lock, pc, status, answer, committed>>

\* everything the web application's handlers and threads never touch
aside == <<call, pool, locking>>

vars == <<web, aside>>

\* ------------------------------------------------------------ plain values
\* Python's None where a dict is expected (the only falsy value a fetch could return)
None == [none |-> TRUE]
Unset == "unset"          \* a key the dict does not hold
\* the value of a call that has not returned
Pending == [pending |-> TRUE]
\* stopAt: no stop accepted for the run so far
NoStop == [at |-> "none", k |-> 0]
\* stopAt: a stop was accepted while the run's fetch was in flight or after its loop
MidStop == [at |-> "mid", k |-> 0]
\* stopAt: a stop was accepted after n keys completed and before the next dispatch
HeadStop(n) == [at |-> "head", k |-> n]

\* raw lists a client can submit: every sequence over Keys of length
\* 0..MaxKeys whose first key is "A"
RECURSIVE SeqsUpTo(_)
SeqsUpTo(n) ==
    IF n = 0 THEN { <<>> }
    ELSE SeqsUpTo(n - 1) \cup
         { Append(s, Keys[k]) : s \in { x \in SeqsUpTo(n - 1) : Len(x) = n - 1 },
                                k \in 1..Len(Keys) }

RawLists == { s \in SeqsUpTo(MaxKeys) : s = <<>> \/ s[1] = Keys[1] }

\* values of the max_workers form field the clients of the site's page send
WorkerChoices == {"1"}

\* int(text): the number a decimal text denotes, or ValueError
int(text) ==
    LET denoted == { n \in -1..11 : ToString(n) = text }
    IN IF denoted = {} THEN [ok |-> FALSE, value |-> 0]
       ELSE [ok |-> TRUE, value |-> CHOOSE n \in denoted : TRUE]

\* float(text), in tenths of a second, or ValueError
float(text) ==
    CASE text = "2.0" -> [ok |-> TRUE, value |-> 20]
      [] text = "0" -> [ok |-> TRUE, value |-> 0]
      [] text = "-1" -> [ok |-> TRUE, value |-> -10]
      [] OTHER -> [ok |-> FALSE, value |-> 0]

\* a form the site's page posts: a session id, a worker count from its
\* selector, the default delay, and the keys typed in
PageForm(raw, w) ==
    [session_id |-> "F750F4D0", max_workers |-> w, delay |-> "2.0",
     manual_vehicles |-> raw]

\* list(dict.fromkeys(xs)): drop later duplicates, keep first-seen order
RECURSIVE Dedupe(_)
Dedupe(xs) ==
    IF xs = <<>> THEN <<>>
    ELSE LET front == Dedupe(SubSeq(xs, 1, Len(xs) - 1))
             last  == xs[Len(xs)]
         IN IF \E k \in 1..Len(front) : front[k] = last
            THEN front ELSE Append(front, last)

\* ------------------------------------------------------------ the fetch core
\* longest details table of a page
MaxRows == 2

\* the only status code get_vehicle_info accepts
HTTP_OK == 200

\* Python's `sub in s` on strings
Contains(s, sub) ==
    \E k \in 1..(Len(s) - Len(sub) + 1) : SubSeq(s, k, k + Len(sub) - 1) = sub

Uppercase == "ABCDEFGHIJKLMNOPQRSTUVWXYZ"
Lowercase == "abcdefghijklmnopqrstuvwxyz"

\* str.lower(): every upper-case letter replaced by its lower-case letter
RECURSIVE lower(_)
lower(s) ==
    IF Len(s) = 0 THEN ""
    ELSE LET c == SubSeq(s, 1, 1)
             at == { k \in 1..Len(Uppercase) : SubSeq(Uppercase, k, k) = c }
             lc == IF at = {} THEN c
                   ELSE LET k == CHOOSE k \in at : TRUE IN SubSeq(Lowercase, k, k)
         IN lc \o lower(SubSeq(s, 2, Len(s)))

\* get_text(strip=True) of a cell: blanks at both ends removed
RECURSIVE strip(_)
strip(s) ==
    IF Len(s) = 0 THEN ""
    ELSE IF SubSeq(s, 1, 1) = " " THEN strip(SubSeq(s, 2, Len(s)))
    ELSE IF SubSeq(s, Len(s), Len(s)) = " " THEN strip(SubSeq(s, 1, Len(s) - 1))
    ELSE s

\* the keys of a parsed dict that hold text of the page
Fields ==
    {"report_date", "name_of_ownership", "engine_number", "vehicle_class",
     "conditions_and_notes", "make", "model", "year_of_manufacture"}

\* label cells a details table can hold: the labels of the site in the cases
\* a page can spell them, and a label the parser does not know
Labels ==
    {"Name of the Absolute Ownership", "Mortgage if any", "Engine Number",
     "Vehicle Class", "Conditions and Notes", "Make", " MAKE ", "Model",
     "Year of Manufacture", "YEAR OF MANUFACTURE", "year of manufacture",
     "Colour"}

\* value cells a details table can hold
Values == {"ABC123", " Motor Car "}

\* rows of a details table: the td cells of a tr, three (label, separator,
\* value) or fewer
Rows ==
    { <<label, "-", value>> : label \in Labels, value \in Values }
        \cup { <<"Make", "Toyota">> }

RECURSIVE RowsUpTo(_)
RowsUpTo(n) ==
    IF n = 0 THEN { <<>> }
    ELSE RowsUpTo(n - 1) \cup
         { Append(rows, row) : rows \in { x \in RowsUpTo(n - 1) : Len(x) = n - 1 },
                               row \in Rows }

\* a response body as the parser sees it: whether html.parser walks it, the
\* text after the "Report Date :" label ("" when the label is not there),
\* whether the details table is there, and the table's rows
Documents ==
    { [parsable |-> TRUE, report_date |-> d, table |-> TRUE, rows |-> rows] :
          d \in {"", "2024-01-01"}, rows \in RowsUpTo(MaxRows) }
      \cup { [parsable |-> TRUE, report_date |-> "", table |-> FALSE, rows |-> <<>>] }

\* a body the scan raises on
Garbage == [parsable |-> FALSE, report_date |-> "", table |-> FALSE, rows |-> <<>>]

\* the page of the site for a known vehicle
Page ==
    [parsable |-> TRUE, report_date |-> "2024-01-01", table |-> TRUE,
     rows |-> << <<"Engine Number", "-", "ABC123">>,
                 <<"Vehicle Class", "-", " Motor Car ">> >>]

\* str(e) of the exceptions requests.post raises: timeout, refused connection,
\* failed TLS handshake
TIMED_OUT == "Read timed out. (read timeout=30)"
Exceptions == {TIMED_OUT, "Connection refused", "CERTIFICATE_VERIFY_FAILED"}

\* time.sleep of a negative delay (line 181) raises inside the try block, before
\* any request is made
SleepRaised ==
    [raised |-> TRUE, exc |-> "sleep length must be non-negative",
     status_code |-> 0, text |-> Garbage]

\* what one requests.post call can come back with: a response with a status
\* code and a body the parser accepts or raises on, or an exception (timeout,
\* connection failure, TLS failure) instead of a response
Responses ==
    { [raised |-> FALSE, exc |-> "", status_code |-> HTTP_OK, text |-> Page],
      [raised |-> FALSE, exc |-> "", status_code |-> HTTP_OK, text |-> Garbage],
      [raised |-> FALSE, exc |-> "", status_code |-> 500, text |-> Garbage],
      [raised |-> TRUE, exc |-> TIMED_OUT, status_code |-> 0, text |-> Garbage] }

\* the same with every status code, body and exception of the model
AllResponses ==
    { [raised |-> FALSE, exc |-> "", status_code |-> HTTP_OK, text |-> d] :
          d \in Documents \cup {Garbage} }
      \cup { [raised |-> FALSE, exc |-> "", status_code |-> c, text |-> d] :
                 c \in {204, 404, 500}, d \in {Page, Garbage} }
      \cup { [raised |-> TRUE, exc |-> e, status_code |-> 0, text |-> Garbage] :
                 e \in Exceptions }

\* what the remote does in the runs of the web application: it answers with a
\* page, or the call raises (the 30 s timeout).  run_scraping_task treats every
\* dict get_vehicle_info returns alike; the kinds of failure differ only in
\* the dict's text, which get_vehicle_info decides
Served == { r \in Responses : r.raised \/ r.text.parsable }

\* the dict literals of lines 162-167, 208-213 and 217-222: the three keys they
\* hold (and 'timestamp', left out), every other key not held
Failure(number, kind, message) ==
    [vehicle_number |-> number, report_date |-> Unset, name_of_ownership |-> Unset,
     engine_number |-> Unset, vehicle_class |-> Unset, conditions_and_notes |-> Unset,
     make |-> Unset, model |-> Unset, year_of_manufacture |-> Unset,
     status |-> kind, error |-> message]

\* the row loop's body without .lower() on the label
MapRow_CaseSensitive(parsed, cells) ==
    IF Len(cells) < 3 THEN parsed
    ELSE LET label_text == strip(cells[1])
             value_text == strip(cells[3])
         IN IF Contains(label_text, "name of the absolute ownership")
                 \/ Contains(label_text, "mortgage if any")
            THEN [parsed EXCEPT !.name_of_ownership = value_text]
            ELSE IF Contains(label_text, "engine number")
            THEN [parsed EXCEPT !.engine_number = value_text]
            ELSE IF Contains(label_text, "vehicle class")
            THEN [parsed EXCEPT !.vehicle_class = value_text]
            ELSE IF Contains(label_text, "conditions and notes")
            THEN [parsed EXCEPT !.conditions_and_notes = value_text]
            ELSE IF Contains(label_text, "make") /\ ~Contains(label_text, "year")
            THEN [parsed EXCEPT !.make = value_text]
            ELSE IF Contains(label_text, "model")
            THEN [parsed EXCEPT !.model = value_text]
            ELSE IF Contains(label_text, "year of manufacture")
            THEN [parsed EXCEPT !.year_of_manufacture = value_text]
            ELSE parsed

\* parse_vehicle_info, lines 134-156: one row of the details table
MapRow(parsed, cells) ==
    IF Len(cells) < 3 THEN parsed
    ELSE LET label_text == lower(strip(cells[1]))
             value_text == strip(cells[3])
         IN IF Contains(label_text, "name of the absolute ownership")
                 \/ Contains(label_text, "mortgage if any")
            THEN [parsed EXCEPT !.name_of_ownership = value_text]
            ELSE IF Contains(label_text, "engine number")
            THEN [parsed EXCEPT !.engine_number = value_text]
            ELSE IF Contains(label_text, "vehicle class")
            THEN [parsed EXCEPT !.vehicle_class = value_text]
            ELSE IF Contains(label_text, "conditions and notes")
            THEN [parsed EXCEPT !.conditions_and_notes = value_text]
            ELSE IF Contains(label_text, "make") /\ ~Contains(label_text, "year")
            THEN [parsed EXCEPT !.make = value_text]
            ELSE IF Contains(label_text, "model")
            THEN [parsed EXCEPT !.model = value_text]
            ELSE IF Contains(label_text, "year of manufacture")
            THEN [parsed EXCEPT !.year_of_manufacture = value_text]
            ELSE parsed

\* parse_vehicle_info, line 133: the loop over the rows, first to last
RECURSIVE ScanRows(_, _)
ScanRows(parsed, rows) ==
    IF rows = <<>> THEN parsed
    ELSE ScanRows(MapRow(parsed, Head(rows)), Tail(rows))

\* parse_vehicle_info with an initial dict that holds no field
parse_vehicle_info_NoDefaults(html_content, number) ==
    IF html_content.parsable
    THEN LET initial ==
                 [vehicle_number |-> number, report_date |-> html_content.report_date,
                  name_of_ownership |-> Unset, engine_number |-> Unset,
                  vehicle_class |-> Unset, conditions_and_notes |-> Unset, make |-> Unset,
                  model |-> Unset, year_of_manufacture |-> Unset, status |-> "success",
                  error |-> Unset]
         IN IF html_content.table THEN ScanRows(initial, html_content.rows) ELSE initial
    ELSE Failure(number, "parse_error", "HTML parsing failed")

\* parse_vehicle_info: the dict for a body the parser walks (every field '',
\* then the report date and the rows of the table), or the parse_error dict of
\* its except branch.  The registration number the page echoes is only logged.
parse_vehicle_info(html_content, number) ==
    IF html_content.parsable
    THEN LET initial ==
                 [vehicle_number |-> number, report_date |-> html_content.report_date,
                  name_of_ownership |-> "", engine_number |-> "", vehicle_class |-> "",
                  conditions_and_notes |-> "", make |-> "", model |-> "",
                  year_of_manufacture |-> "", status |-> "success", error |-> Unset]
         IN IF html_content.table THEN ScanRows(initial, html_content.rows) ELSE initial
    ELSE Failure(number, "parse_error", "HTML parsing failed")

\* get_vehicle_info as its docstring has it ("or None if failed"): no dict for a
\* call that raised
get_vehicle_info_NoneIfFailed(number, reply) ==
    IF reply.raised
    THEN None
    ELSE IF reply.status_code = HTTP_OK
         THEN parse_vehicle_info(reply.text, number)
         ELSE Failure(number, "failed", "HTTP " \o ToString(reply.status_code))

\* get_vehicle_info whose HTTP failure dict has no 'error' key
get_vehicle_info_NoErrorKey(number, reply) ==
    IF reply.raised
    THEN Failure(number, "failed", reply.exc)
    ELSE IF reply.status_code = HTTP_OK
         THEN parse_vehicle_info(reply.text, number)
         ELSE Failure(number, "failed", Unset)

\* get_vehicle_info that parses the body of every response, whatever its status
get_vehicle_info_AnyStatus(number, reply) ==
    IF reply.raised
    THEN Failure(number, "failed", reply.exc)
    ELSE parse_vehicle_info(reply.text, number)

\* get_vehicle_info: always a dict; every exception is caught inside it
get_vehicle_info(number, reply) ==
    IF reply.raised
    THEN Failure(number, "failed", reply.exc)
    ELSE IF reply.status_code = HTTP_OK
         THEN parse_vehicle_info(reply.text, number)
         ELSE Failure(number, "failed", "HTTP " \o ToString(reply.status_code))

\* get_vehicle_info, lines 181-198: the requests.post calls one call makes, by
\* the key each carries: one, unless time.sleep raised before line 191
Requested(number, reply) == IF reply = SleepRaised THEN <<>> ELSE <<number>>

\* get_vehicle_info on the keys and replies of the web runs, tabulated
Fetched ==
    [number \in { Keys[k] : k \in 1..Len(Keys) }, reply \in Responses \cup {SleepRaised} |->
         get_vehicle_info(number, reply)]

\* ------------------------------------------------------------- the web app
\* app.py:69-77 the dict the module starts with
InitialStatus ==
    [is_running |-> FALSE, progress |-> 0, total |-> 0, current_vehicle |-> "",
     results |-> <<>>, start_time |-> 0, estimated_time_remaining |-> <<>>,
     completed |-> Unset, error |-> Unset, csv_file |-> Unset, json_file |-> Unset]

\* app.py:155-164 the dict an accepted start installs; start_time is the clock
\* reading request r takes, named by r (distinct requests read distinct clocks)
FreshStatus(r, numbers) ==
    [is_running |-> TRUE, progress |-> 0, total |-> Len(numbers), current_vehicle |-> "",
     results |-> <<>>, start_time |-> r, estimated_time_remaining |-> <<>>,
     completed |-> Unset, error |-> Unset, csv_file |-> Unset, json_file |-> Unset]

\* app.py:209-213 elapsed / i * (len - i), kept symbolic: the start time the
\* elapsed time is measured from, the divisor and the remaining count
Eta(shared, done, n) == <<shared.start_time, done, n - done>>

\* no get_vehicle_info call is made outside the web application
NoCall ==
    /\ response = None
    /\ vehicle_number = ""
    /\ result = Pending

\* the web application as the module leaves it: no request, no thread
InitWeb ==
    /\ scraping_status = InitialStatus
    /\ rpc = [r \in Requests |-> "new"]
    /\ tpc = [r \in Requests |-> "idle"]
    /\ vehicle_numbers = [r \in Requests |-> <<>>]
    /\ max_workers = [r \in Requests |-> 0]
    /\ delay = [r \in Requests |-> 0]
    /\ i = [r \in Requests |-> 0]
    /\ results = [r \in Requests |-> <<>>]
    /\ stopAt = [r \in Requests |-> NoStop]
    /\ dispatched = [r \in Requests |-> <<>>]
    /\ posted = [r \in Requests |-> <<>>]

\* process_vehicles is not called
NoPool ==
    /\ self_max_workers = 0
    /\ future_to_vehicle = <<>>
    /\ process_results = <<>>

\* the functions of app.py that take the lock in the line-by-line model
Functions == {"start_scraping", "run_scraping_task", "cancel_scraping", "get_progress"}

\* no function of the line-by-line model runs
NoLocking ==
    /\ scraping_lock = "free"
    /\ pc = [f \in Functions |-> "idle"]
    /\ status = Pending
    /\ answer = Pending
    /\ committed = InitialStatus

Init == InitWeb /\ NoCall /\ NoPool /\ NoLocking

\* a thread that was started and has not returned
Live(t) == tpc[t] \in {"loop", "fetch", "save"}

\* start_scraping without its busy check
StartCheck_NoBusy(r) ==
    /\ rpc[r] = "new"
    /\ \A q \in Requests : q < r => rpc[q] # "new"
    /\ rpc' = [rpc EXCEPT ![r] = "checked"]
    /\ UNCHANGED <<scraping_status, tpc, vehicle_numbers, max_workers, i, results, stopAt, delay>>
    /\ UNCHANGED <<dispatched, posted>>
    /\ UNCHANGED aside

\* start_scraping, lines 99-101: the busy check under the lock.  Requests are
\* numbered in the order their checks run.
StartCheck(r) ==
    /\ rpc[r] = "new"
    /\ \A q \in Requests : q < r => rpc[q] # "new"
    /\ rpc' = [rpc EXCEPT ![r] = IF scraping_status.is_running THEN "busy" ELSE "checked"]
    /\ UNCHANGED <<scraping_status, tpc, vehicle_numbers, max_workers, i, results, stopAt, delay>>
    /\ UNCHANGED <<dispatched, posted>>
    /\ UNCHANGED aside

\* start_scraping that updates the dict in place (dict.update) instead of
\* installing a new one
StartWith_Update(r, form) ==
    LET workers == int(form.max_workers)
        pause   == float(form.delay)
        numbers == form.manual_vehicles
    IN /\ rpc[r] = "checked"
       /\ IF ~workers.ok \/ ~pause.ok
          THEN /\ rpc' = [rpc EXCEPT ![r] = "error"]
               /\ UNCHANGED <<scraping_status, tpc, vehicle_numbers, max_workers, delay>>
          ELSE IF form.session_id = "" \/ numbers = <<>>
          THEN /\ rpc' = [rpc EXCEPT ![r] = "invalid"]
               /\ UNCHANGED <<scraping_status, tpc, vehicle_numbers, max_workers, delay>>
          ELSE /\ rpc' = [rpc EXCEPT ![r] = "started"]
               /\ vehicle_numbers' = [vehicle_numbers EXCEPT ![r] = Dedupe(numbers)]
               /\ max_workers' = [max_workers EXCEPT ![r] = workers.value]
               /\ delay' = [delay EXCEPT ![r] = pause.value]
               /\ scraping_status' =
                    [scraping_status EXCEPT
                       !.is_running = TRUE, !.progress = 0, !.total = Len(Dedupe(numbers)),
                       !.current_vehicle = "", !.results = <<>>, !.start_time = r,
                       !.estimated_time_remaining = <<>>]
               /\ tpc' = [tpc EXCEPT ![r] = "loop"]
       /\ UNCHANGED <<i, results, stopAt, dispatched, posted>>
       /\ UNCHANGED aside

\* start_scraping, lines 103-177, for one posted form: read the form (a text
\* that is no number raises, answered 500; a missing session id or an empty key
\* list is answered 400; none of these changes anything); otherwise
\* deduplicate, install the fresh dict under the lock and start the thread,
\* whose run_scraping_task builds its scraper and its empty local list
\* (lines 187-198)
StartWith(r, form) ==
    LET workers == int(form.max_workers)
        pause   == float(form.delay)
        numbers == form.manual_vehicles
    IN /\ rpc[r] = "checked"
       /\ IF ~workers.ok \/ ~pause.ok
          THEN /\ rpc' = [rpc EXCEPT ![r] = "error"]
               /\ UNCHANGED <<scraping_status, tpc, vehicle_numbers, max_workers, delay>>
          ELSE IF form.session_id = "" \/ numbers = <<>>
          THEN /\ rpc' = [rpc EXCEPT ![r] = "invalid"]
               /\ UNCHANGED <<scraping_status, tpc, vehicle_numbers, max_workers, delay>>
          ELSE /\ rpc' = [rpc EXCEPT ![r] = "started"]
               /\ vehicle_numbers' = [vehicle_numbers EXCEPT ![r] = Dedupe(numbers)]
               /\ max_workers' = [max_workers EXCEPT ![r] = workers.value]
               /\ delay' = [delay EXCEPT ![r] = pause.value]
               /\ scraping_status' = FreshStatus(r, Dedupe(numbers))
               /\ tpc' = [tpc EXCEPT ![r] = "loop"]
       /\ UNCHANGED <<i, results, stopAt, dispatched, posted>>
       /\ UNCHANGED aside

\* the concurrency get_configuration accepts
MIN_WORKERS == 1
MAX_WORKERS == 10

\* forms any client can post: with or without a session id, a worker count in
\* or out of bounds or no number at all, a delay or a negative one, any key list
Forms ==
    { [session_id |-> sid, max_workers |-> w, delay |-> d, manual_vehicles |-> raw] :
          sid \in {"", "F750F4D0"}, w \in {"1", "0", "11", "x"},
          d \in {"2.0", "-1"}, raw \in RawLists }

\* start_scraping past its busy check, for any posted form
StartAny(r) == \E form \in Forms : StartWith(r, form)

\* start_scraping past its busy check, for the forms the site's page posts
StartInit(r) ==
    \E raw \in RawLists, w \in WorkerChoices : StartWith(r, PageForm(raw, w))

\* the loop head of a for loop that walks the list from its end
LoopHead_LastFirst(t) ==
    /\ tpc[t] = "loop"
    /\ IF ~scraping_status.is_running
       THEN /\ tpc' = [tpc EXCEPT ![t] = "save"]
            /\ UNCHANGED <<scraping_status, dispatched>>
       ELSE /\ tpc' = [tpc EXCEPT ![t] = "fetch"]
            /\ dispatched' =
                 [dispatched EXCEPT
                    ![t] = Append(@, vehicle_numbers[t][Len(vehicle_numbers[t]) - i[t]])]
            /\ scraping_status' =
                 [scraping_status EXCEPT
                    !.current_vehicle = vehicle_numbers[t][Len(vehicle_numbers[t]) - i[t]],
                    !.progress = i[t],
                    !.estimated_time_remaining =
                        IF i[t] > 0
                        THEN Eta(scraping_status, i[t], Len(vehicle_numbers[t]))
                        ELSE @]
    /\ UNCHANGED <<rpc, vehicle_numbers, max_workers, i, results, stopAt, delay, posted>>
    /\ UNCHANGED aside

\* run_scraping_task, lines 200-213: the head of one loop iteration, under the
\* lock: break when the flag is down, else publish the key about to be fetched
LoopHead(t) ==
    /\ tpc[t] = "loop"
    /\ IF ~scraping_status.is_running
       THEN /\ tpc' = [tpc EXCEPT ![t] = "save"]
            /\ UNCHANGED <<scraping_status, dispatched>>
       ELSE /\ tpc' = [tpc EXCEPT ![t] = "fetch"]
            /\ dispatched' = [dispatched EXCEPT ![t] = Append(@, vehicle_numbers[t][i[t] + 1])]
            /\ scraping_status' =
                 [scraping_status EXCEPT
                    !.current_vehicle = vehicle_numbers[t][i[t] + 1],
                    !.progress = i[t],
                    !.estimated_time_remaining =
                        IF i[t] > 0
                        THEN Eta(scraping_status, i[t], Len(vehicle_numbers[t]))
                        ELSE @]
    /\ UNCHANGED <<rpc, vehicle_numbers, max_workers, i, results, stopAt, delay, posted>>
    /\ UNCHANGED aside

\* run_scraping_task, lines 216-221: get_vehicle_info returns, the dict is
\* appended to the local list and a copy of the list is published under the
\* lock; the for loop then moves on, or is exhausted
FetchDone(t) ==
    /\ tpc[t] = "fetch"
    /\ \E reply \in IF delay[t] < 0 THEN {SleepRaised} ELSE Served :
         LET got   == Fetched[vehicle_numbers[t][i[t] + 1], reply]
             local == IF got # None THEN Append(results[t], got) ELSE results[t]
         IN /\ results' = [results EXCEPT ![t] = local]
            /\ posted' = [posted EXCEPT ![t] = @ \o Requested(vehicle_numbers[t][i[t] + 1], reply)]
            /\ scraping_status' =
                 IF got # None
                 THEN [scraping_status EXCEPT !.results = local]
                 ELSE scraping_status
    /\ i' = [i EXCEPT ![t] = @ + 1]
    /\ tpc' = [tpc EXCEPT ![t] = IF i[t] + 1 < Len(vehicle_numbers[t]) THEN "loop" ELSE "save"]
    /\ UNCHANGED <<rpc, vehicle_numbers, max_workers, stopAt, delay, dispatched>>
    /\ UNCHANGED aside

\* the frame of a thread that has returned
Drop(t) ==
    /\ vehicle_numbers' = [vehicle_numbers EXCEPT ![t] = <<>>]
    /\ max_workers' = [max_workers EXCEPT ![t] = 0]
    /\ i' = [i EXCEPT ![t] = 0]
    /\ results' = [results EXCEPT ![t] = <<>>]
    /\ stopAt' = [stopAt EXCEPT ![t] = NoStop]
    /\ delay' = [delay EXCEPT ![t] = 0]
    /\ dispatched' = [dispatched EXCEPT ![t] = <<>>]
    /\ posted' = [posted EXCEPT ![t] = <<>>]

\* run_scraping_task, lines 223-243: both files are written and the final
\* update is made under the lock
Finish(t) ==
    /\ tpc[t] = "save"
    /\ scraping_status' =
         [scraping_status EXCEPT
            !.is_running = FALSE,
            !.progress = Len(vehicle_numbers[t]),
            !.results = results[t],
            !.csv_file = "set",
            !.json_file = "set",
            !.completed = "True"]
    /\ tpc' = [tpc EXCEPT ![t] = "done"]
    /\ Drop(t)
    /\ UNCHANGED rpc
    /\ UNCHANGED aside

\* the except branch without 'is_running': False
Abort_KeepsRunning(t) ==
    /\ tpc[t] = "save"
    /\ scraping_status' = [scraping_status EXCEPT !.error = "set", !.completed = "False"]
    /\ tpc' = [tpc EXCEPT ![t] = "failed"]
    /\ vehicle_numbers' = [vehicle_numbers EXCEPT ![t] = <<>>]
    /\ max_workers' = [max_workers EXCEPT ![t] = 0]
    /\ i' = [i EXCEPT ![t] = 0]
    /\ results' = [results EXCEPT ![t] = <<>>]
    /\ stopAt' = [stopAt EXCEPT ![t] = NoStop]
    /\ delay' = [delay EXCEPT ![t] = 0]
    /\ dispatched' = [dispatched EXCEPT ![t] = <<>>]
    /\ posted' = [posted EXCEPT ![t] = <<>>]
    /\ UNCHANGED rpc
    /\ UNCHANGED aside

\* run_scraping_task, lines 245-251: writing a file raised (the only statements
\* of the try block that can); the except branch updates under the lock
Abort(t) ==
    /\ tpc[t] = "save"
    /\ scraping_status' =
         [scraping_status EXCEPT
            !.is_running = FALSE,
            !.error = "set",
            !.completed = "False"]
    /\ tpc' = [tpc EXCEPT ![t] = "failed"]
    /\ Drop(t)
    /\ UNCHANGED rpc
    /\ UNCHANGED aside

\* where run t stands for a stop request: its thread is
\* at the loop head (so many keys completed, the next not dispatched), or else
\* its fetch is in flight or its loop is over
StopPoint(t) ==
    IF tpc[t] = "loop" THEN HeadStop(i[t])
    ELSE MidStop

\* cancel_scraping that marks the state cancelled whether or not a run is active
cancel_scraping_MarksAlways ==
    /\ scraping_status' = [scraping_status EXCEPT !.is_running = FALSE, !.completed = "False"]
    /\ stopAt' =
         IF scraping_status.is_running
         THEN [t \in Requests |->
                 IF stopAt[t] = NoStop /\ Live(t)
                 THEN StopPoint(t) ELSE stopAt[t]]
         ELSE stopAt
    /\ UNCHANGED <<rpc, tpc, vehicle_numbers, max_workers, i, results, delay, dispatched, posted>>
    /\ UNCHANGED aside

\* cancel_scraping, lines 276-286
cancel_scraping ==
    /\ scraping_status' = [scraping_status EXCEPT !.is_running = FALSE]
    /\ stopAt' =
         IF scraping_status.is_running
         THEN [t \in Requests |->
                 IF stopAt[t] = NoStop /\ Live(t)
                 THEN StopPoint(t) ELSE stopAt[t]]
         ELSE stopAt
    /\ UNCHANGED <<rpc, tpc, vehicle_numbers, max_workers, i, results, delay, dispatched, posted>>
    /\ UNCHANGED aside

RequestStep(r) == StartCheck(r) \/ StartInit(r)

TaskStep(t) == LoopHead(t) \/ FetchDone(t) \/ Finish(t) \/ Abort(t)

Next ==
    \/ \E r \in Requests : StartCheck(r)
    \/ \E r \in Requests : StartInit(r)
    \/ \E t \in Requests : LoopHead(t)
    \/ \E t \in Requests : FetchDone(t)
    \/ \E t \in Requests : Finish(t)
    \/ \E t \in Requests : Abort(t)
    \/ cancel_scraping

Spec == Init /\ [][Next]_vars

\* the web application with clients that post any form
NextForm ==
    \/ \E r \in Requests : StartCheck(r)
    \/ \E r \in Requests : StartAny(r)
    \/ \E t \in Requests : LoopHead(t)
    \/ \E t \in Requests : FetchDone(t)
    \/ \E t \in Requests : Finish(t)
    \/ \E t \in Requests : Abort(t)
    \/ cancel_scraping

SpecForm == Init /\ [][NextForm]_vars

\* the scheduler runs every started thread, every fetch returns (the 30 s
\* timeout of requests.post) and every file write returns
SpecFair == Spec /\ \A t \in Requests : WF_vars(TaskStep(t))

\* ------------------------------------------------- one fetch on its own
\* a scraper is asked for one vehicle; the remote's answer is any of the model's
InitFetch ==
    /\ InitWeb
    /\ NoPool
    /\ NoLocking
    /\ response \in AllResponses
    /\ vehicle_number \in { Keys[k] : k \in 1..Len(Keys) }
    /\ result = Pending

\* scraper.get_vehicle_info(vehicle_number) returns
Call ==
    /\ result = Pending
    /\ result' = get_vehicle_info(vehicle_number, response)
    /\ UNCHANGED <<response, vehicle_number>>
    /\ UNCHANGED <<web, pool, locking>>

NextFetch == Call

SpecFetch == InitFetch /\ [][NextFetch]_vars

\* ------------------------------------------------- the command-line run
\* process_vehicles, lines 234-241: the executor is built with self.max_workers
\* threads and one future per list entry is submitted, in list order.  The
\* list is what the prompts collected (not deduplicated, never empty); the
\* worker count and the delay are ones get_configuration accepts (the delay
\* is positive, so time.sleep returns).  Each future carries, as history, how
\* many time.sleep calls and how many requests.post calls its call has made.
InitPool ==
    /\ InitWeb
    /\ NoCall
    /\ NoLocking
    /\ self_max_workers \in { w \in MIN_WORKERS..MAX_WORKERS : w <= MaxKeys }
    /\ \E numbers \in RawLists \ { <<>> } :
         future_to_vehicle =
             [k \in 1..Len(numbers) |->
                 [vehicle_number |-> numbers[k], state |-> "queued", nth |-> 0,
                  value |-> Pending, sleeps |-> 0, posts |-> 0]]
    /\ process_results = <<>>

\* the futures a worker thread is executing
Executing ==
    { k \in 1..Len(future_to_vehicle) :
          future_to_vehicle[k].state \in {"sleeping", "requesting"} }

\* the futures whose call has returned
Finished ==
    { k \in 1..Len(future_to_vehicle) : future_to_vehicle[k].state \in {"finished", "yielded"} }

\* a worker that takes a work item and posts its request at once, without the
\* time.sleep of line 181
WorkerTakes_NoSleep(k) ==
    /\ future_to_vehicle[k].state = "queued"
    /\ \A j \in 1..(k - 1) : future_to_vehicle[j].state # "queued"
    /\ Cardinality(Executing) < self_max_workers
    /\ future_to_vehicle' =
         [future_to_vehicle EXCEPT ![k].state = "requesting", ![k].posts = @ + 1]
    /\ UNCHANGED <<self_max_workers, process_results>>
    /\ UNCHANGED <<web, call, locking>>

\* ThreadPoolExecutor: an idle worker thread takes the oldest queued work item
\* and calls get_vehicle_info, which enters time.sleep (line 181)
WorkerTakes(k) ==
    /\ future_to_vehicle[k].state = "queued"
    /\ \A j \in 1..(k - 1) : future_to_vehicle[j].state # "queued"
    /\ Cardinality(Executing) < self_max_workers
    /\ future_to_vehicle' =
         [future_to_vehicle EXCEPT ![k].state = "sleeping", ![k].sleeps = @ + 1]
    /\ UNCHANGED <<self_max_workers, process_results>>
    /\ UNCHANGED <<web, call, locking>>

\* get_vehicle_info, lines 181-198: the worker's time.sleep returns and the
\* worker posts its request
WorkerPosts(k) ==
    /\ future_to_vehicle[k].state = "sleeping"
    /\ future_to_vehicle' =
         [future_to_vehicle EXCEPT ![k].state = "requesting", ![k].posts = @ + 1]
    /\ UNCHANGED <<self_max_workers, process_results>>
    /\ UNCHANGED <<web, call, locking>>

\* the get_vehicle_info call of a work item returns and its future is finished
WorkerReturns(k) ==
    /\ future_to_vehicle[k].state = "requesting"
    /\ \E reply \in Responses :
         future_to_vehicle' =
             [future_to_vehicle EXCEPT
                 ![k].state = "finished",
                 ![k].nth = Cardinality(Finished) + 1,
                 ![k].value = Fetched[future_to_vehicle[k].vehicle_number, reply]]
    /\ UNCHANGED <<self_max_workers, process_results>>
    /\ UNCHANGED <<web, call, locking>>

\* process_vehicles, lines 244-249: as_completed yields the finished futures
\* in the order they finished, and the result of each, a dict, is appended
Collect(k) ==
    /\ future_to_vehicle[k].state = "finished"
    /\ \A j \in Finished : future_to_vehicle[j].nth < future_to_vehicle[k].nth
                               => future_to_vehicle[j].state = "yielded"
    /\ future_to_vehicle' = [future_to_vehicle EXCEPT ![k].state = "yielded"]
    /\ process_results' =
         IF future_to_vehicle[k].value # None
         THEN Append(process_results, future_to_vehicle[k].value)
         ELSE process_results
    /\ UNCHANGED self_max_workers
    /\ UNCHANGED <<web, call, locking>>

NextPool ==
    \/ \E k \in 1..Len(future_to_vehicle) : WorkerTakes(k)
    \/ \E k \in 1..Len(future_to_vehicle) : WorkerPosts(k)
    \/ \E k \in 1..Len(future_to_vehicle) : WorkerReturns(k)
    \/ \E k \in 1..Len(future_to_vehicle) : Collect(k)

SpecPool == InitPool /\ [][NextPool]_vars

\* process_vehicles has returned: as_completed is exhausted
PoolReturned ==
    /\ future_to_vehicle # <<>>
    /\ \A k \in 1..Len(future_to_vehicle) : future_to_vehicle[k].state = "yielded"

\* ------------------------------------------------- app.py line by line
\* The four functions of app.py that the clients and the thread run, one
\* statement per step, with the lock as a variable: pc[f] is the source line
\* function f executes next.  One thread runs at a time here: a client posts
\* its form once the thread of the previous run has returned.
InitLock ==
    /\ InitWeb
    /\ NoCall
    /\ NoPool
    /\ scraping_lock = "free"
    /\ pc = [f \in Functions |->
                CASE f = "start_scraping" -> "99"
                  [] f = "run_scraping_task" -> "idle"
                  [] f = "cancel_scraping" -> "281"
                  [] f = "get_progress" -> "259"]
    /\ status = Pending
    /\ answer = Pending
    /\ committed = InitialStatus

\* web variables the line-by-line model leaves alone
untouched == <<rpc, tpc, max_workers, stopAt, delay, dispatched, posted, call, pool>>

\* function f moves from one line to another
Goto(f, from, to) == pc[f] = from /\ pc' = [pc EXCEPT ![f] = to]

\* entering "with scraping_lock:" without acquiring the lock
Acquire_Nothing(f) == UNCHANGED <<scraping_lock, committed>>

\* "with scraping_lock:" entered: the lock is acquired once it is free
Acquire(f) == scraping_lock = "free" /\ scraping_lock' = f /\ UNCHANGED committed

\* the with block is left: the lock is released
Release == scraping_lock' = "free" /\ committed' = scraping_status'

\* a statement inside a with block that does not leave it
Inside == UNCHANGED <<scraping_lock, committed>>

\* line 99
Start99 ==
    /\ Goto("start_scraping", "99", "100")
    /\ Acquire("start_scraping")
    /\ UNCHANGED <<scraping_status, vehicle_numbers, i, results, status, answer, untouched>>

\* lines 100-101: the flag is read; a busy answer ends the request (the next
\* request then stands at line 99)
Start100 ==
    /\ Goto("start_scraping", "100", IF scraping_status.is_running THEN "99" ELSE "103")
    /\ UNCHANGED scraping_status
    /\ Release
    /\ UNCHANGED <<vehicle_numbers, i, results, status, answer, untouched>>

\* lines 103-151: the form is read into locals; an empty list ends the request
Start103 ==
    /\ pc["start_scraping"] = "103"
    /\ pc["run_scraping_task"] \in {"idle", "done", "failed"}
    /\ \E raw \in RawLists :
         IF raw = <<>>
         THEN /\ pc' = [pc EXCEPT !["start_scraping"] = "99"]
              /\ UNCHANGED vehicle_numbers
         ELSE /\ pc' = [pc EXCEPT !["start_scraping"] = "154"]
              /\ vehicle_numbers' = [vehicle_numbers EXCEPT ![1] = Dedupe(raw)]
    /\ UNCHANGED <<scraping_status, scraping_lock, committed, i, results, status, answer, untouched>>

\* line 154
Start154 ==
    /\ Goto("start_scraping", "154", "155")
    /\ Acquire("start_scraping")
    /\ UNCHANGED <<scraping_status, vehicle_numbers, i, results, status, answer, untouched>>

\* lines 155-164
Start155 ==
    /\ Goto("start_scraping", "155", "167")
    /\ scraping_status' = FreshStatus(1, vehicle_numbers[1])
    /\ Release
    /\ UNCHANGED <<vehicle_numbers, i, results, status, answer, untouched>>

\* lines 167-177 and 187-198: the thread is started with its empty list
Start167 ==
    /\ pc["start_scraping"] = "167"
    /\ pc' = [pc EXCEPT !["start_scraping"] = "99", !["run_scraping_task"] = "201"]
    /\ i' = [i EXCEPT ![1] = 0]
    /\ results' = [results EXCEPT ![1] = <<>>]
    /\ UNCHANGED <<scraping_status, scraping_lock, committed, vehicle_numbers, status, answer, untouched>>

\* line 201
Task201 ==
    /\ Goto("run_scraping_task", "201", "202")
    /\ Acquire("run_scraping_task")
    /\ UNCHANGED <<scraping_status, vehicle_numbers, i, results, status, answer, untouched>>

\* lines 202-203
Task202 ==
    /\ pc["run_scraping_task"] = "202"
    /\ UNCHANGED scraping_status
    /\ IF ~scraping_status.is_running
       THEN /\ pc' = [pc EXCEPT !["run_scraping_task"] = "224"]
            /\ Release
       ELSE /\ pc' = [pc EXCEPT !["run_scraping_task"] = "205"]
            /\ Inside
    /\ UNCHANGED <<vehicle_numbers, i, results, status, answer, untouched>>

\* line 205
Task205 ==
    /\ Goto("run_scraping_task", "205", "206")
    /\ scraping_status' =
         [scraping_status EXCEPT !.current_vehicle = vehicle_numbers[1][i[1] + 1]]
    /\ Inside
    /\ UNCHANGED <<vehicle_numbers, i, results, status, answer, untouched>>

\* line 206
Task206 ==
    /\ Goto("run_scraping_task", "206", "209")
    /\ scraping_status' = [scraping_status EXCEPT !.progress = i[1]]
    /\ Inside
    /\ UNCHANGED <<vehicle_numbers, i, results, status, answer, untouched>>

\* lines 209-213
Task209 ==
    /\ Goto("run_scraping_task", "209", "216")
    /\ scraping_status' =
         [scraping_status EXCEPT
            !.estimated_time_remaining =
                IF i[1] > 0 THEN Eta(scraping_status, i[1], Len(vehicle_numbers[1])) ELSE @]
    /\ Release
    /\ UNCHANGED <<vehicle_numbers, i, results, status, answer, untouched>>

\* lines 216-218
Task216 ==
    /\ Goto("run_scraping_task", "216", "220")
    /\ \E reply \in Served :
         results' = [results EXCEPT ![1] = Append(@, Fetched[vehicle_numbers[1][i[1] + 1], reply])]
    /\ UNCHANGED <<scraping_status, scraping_lock, committed, vehicle_numbers, i, status, answer, untouched>>

\* line 220
Task220 ==
    /\ Goto("run_scraping_task", "220", "221")
    /\ Acquire("run_scraping_task")
    /\ UNCHANGED <<scraping_status, vehicle_numbers, i, results, status, answer, untouched>>

\* line 221, and line 200 for the next key
Task221 ==
    /\ Goto("run_scraping_task", "221",
            IF i[1] + 1 < Len(vehicle_numbers[1]) THEN "201" ELSE "224")
    /\ scraping_status' = [scraping_status EXCEPT !.results = results[1]]
    /\ Release
    /\ i' = [i EXCEPT ![1] = @ + 1]
    /\ UNCHANGED <<vehicle_numbers, results, status, answer, untouched>>

\* lines 224-232: the files are written, or writing raises
Task224 ==
    /\ pc["run_scraping_task"] = "224"
    /\ \E next \in {"235", "246"} : pc' = [pc EXCEPT !["run_scraping_task"] = next]
    /\ UNCHANGED <<scraping_status, scraping_lock, committed, vehicle_numbers, i, results, status, answer, untouched>>

\* line 235
Task235 ==
    /\ Goto("run_scraping_task", "235", "236")
    /\ Acquire("run_scraping_task")
    /\ UNCHANGED <<scraping_status, vehicle_numbers, i, results, status, answer, untouched>>

\* lines 236-243
Task236 ==
    /\ Goto("run_scraping_task", "236", "done")
    /\ scraping_status' =
         [scraping_status EXCEPT
            !.is_running = FALSE,
            !.progress = Len(vehicle_numbers[1]),
            !.results = results[1],
            !.csv_file = "set",
            !.json_file = "set",
            !.completed = "True"]
    /\ Release
    /\ UNCHANGED <<vehicle_numbers, i, results, status, answer, untouched>>

\* line 246
Task246 ==
    /\ Goto("run_scraping_task", "246", "247")
    /\ Acquire("run_scraping_task")
    /\ UNCHANGED <<scraping_status, vehicle_numbers, i, results, status, answer, untouched>>

\* lines 247-251
Task247 ==
    /\ Goto("run_scraping_task", "247", "failed")
    /\ scraping_status' =
         [scraping_status EXCEPT !.is_running = FALSE, !.error = "set", !.completed = "False"]
    /\ Release
    /\ UNCHANGED <<vehicle_numbers, i, results, status, answer, untouched>>

\* line 281
Cancel281 ==
    /\ Goto("cancel_scraping", "281", "282")
    /\ Acquire("cancel_scraping")
    /\ UNCHANGED <<scraping_status, vehicle_numbers, i, results, status, answer, untouched>>

\* lines 282-286; the next request then stands at line 281
Cancel282 ==
    /\ Goto("cancel_scraping", "282", "281")
    /\ scraping_status' = [scraping_status EXCEPT !.is_running = FALSE]
    /\ Release
    /\ UNCHANGED <<vehicle_numbers, i, results, status, answer, untouched>>

\* lines 264-271: the dict get_progress answers with when the copy is neither
\* running nor completed (the six keys it holds, every other key not held)
IdleAnswer ==
    [is_running |-> FALSE, progress |-> 0, total |-> 0, current_vehicle |-> "",
     results |-> <<>>, start_time |-> Unset, estimated_time_remaining |-> Unset,
     completed |-> "False", error |-> Unset, csv_file |-> Unset, json_file |-> Unset]

\* line 259 entered without the lock
Progress259_NoLock ==
    /\ Goto("get_progress", "259", "260")
    /\ Acquire_Nothing("get_progress")
    /\ answer' = Pending
    /\ UNCHANGED <<scraping_status, vehicle_numbers, i, results, status, untouched>>

\* line 259
Progress259 ==
    /\ Goto("get_progress", "259", "260")
    /\ Acquire("get_progress")
    /\ answer' = Pending
    /\ UNCHANGED <<scraping_status, vehicle_numbers, i, results, status, untouched>>

\* line 260
Progress260 ==
    /\ Goto("get_progress", "260", "263")
    /\ status' = scraping_status
    /\ UNCHANGED scraping_status
    /\ Release
    /\ UNCHANGED <<vehicle_numbers, i, results, answer, untouched>>

\* lines 263-273: the answer is built from the copy; the next request then
\* stands at line 259
Progress263 ==
    /\ Goto("get_progress", "263", "259")
    /\ answer' = IF ~status.is_running /\ status.completed # "True"
                 THEN IdleAnswer
                 ELSE status
    /\ UNCHANGED <<scraping_status, scraping_lock, committed, vehicle_numbers, i, results, status, untouched>>

NextLock ==
    \/ Start99 \/ Start100 \/ Start103 \/ Start154 \/ Start155 \/ Start167
    \/ Task201 \/ Task202 \/ Task205 \/ Task206 \/ Task209 \/ Task216
    \/ Task220 \/ Task221 \/ Task224 \/ Task235 \/ Task236 \/ Task246 \/ Task247
    \/ Cancel281 \/ Cancel282
    \/ Progress259 \/ Progress260 \/ Progress263

SpecLock == InitLock /\ [][NextLock]_vars

\* the lines whose statement reads or writes scraping_status
Accesses ==
    {"100", "155", "202", "205", "206", "209", "221", "236", "247", "282", "260"}

\* ------------------------------------------------------------- properties
IsPrefix(a, b) == Len(a) <= Len(b) /\ SubSeq(b, 1, Len(a)) = a

\* the threads inside get_vehicle_info
InFlight == { t \in Requests : tpc[t] = "fetch" }

\* thread t returns in this step
Returns(t) == tpc[t] = "save" /\ tpc'[t] \in {"done", "failed"}

\* the dicts of the first n keys of run t, whatever each fetch came back with
FirstRecords(t, list, n) ==
    /\ Len(list) = n
    /\ \A j \in 1..n : list[j].vehicle_number = vehicle_numbers[t][j]

\* C1: at most one run is active at a time: two run_scraping_task threads
\* never execute at the same time, for every interleaving of start requests.
C1_OneTaskAtATime == Cardinality({ t \in Requests : Live(t) }) <= 1

\* C2: a start request whose check finds a run active is answered busy, starts
\* no thread, and leaves every field of scraping_status as it was; a request
\* answered busy does nothing afterwards.
C2_BusyStartChangesNothing ==
    [][\A r \in Requests :
         /\ (rpc[r] = "new" /\ rpc'[r] # "new" /\ scraping_status.is_running)
              => (rpc'[r] = "busy" /\ scraping_status' = scraping_status /\ tpc' = tpc)
         /\ rpc[r] = "busy" => (rpc'[r] = "busy" /\ tpc'[r] = "idle")]_vars

\* a request was answered busy while the run it met is still collecting records
C2_Witness ==
    \E r \in Requests :
        /\ rpc[r] = "busy"
        /\ scraping_status.is_running
        /\ Len(scraping_status.results) > 0

\* C3: a run that is never cancelled leaves its loop with exactly one Record
\* per input key, in every other case with at most that many.
C3_OneRecordPerKey ==
    \A t \in Requests :
        tpc[t] = "save" =>
            IF stopAt[t] = NoStop
            THEN FirstRecords(t, results[t], Len(vehicle_numbers[t]))
            ELSE Len(results[t]) <= Len(vehicle_numbers[t])

\* C4: once a stop request has been accepted for a run, that run's thread
\* dispatches no further key, whatever requests follow.
C4_NoDispatchAfterStop ==
    [][\A t \in Requests :
         stopAt[t] # NoStop => ~(tpc[t] = "loop" /\ tpc'[t] = "fetch")]_vars

\* C5: when a stop is accepted after k keys of a run have completed and before
\* the next is dispatched, the state the run's thread leaves when it returns
\* exposes exactly the Records of the first k keys.
C5_StopAfterKGivesK ==
    [][\A t \in Requests :
         (Returns(t) /\ stopAt[t].at = "head")
             => FirstRecords(t, scraping_status'.results, stopAt[t].k)]_vars

\* C6: the state a thread leaves when it returns tells the three outcomes
\* apart: aborted (completed False, with an error), finished all keys
\* (completed True), cancelled before all keys were dispatched (not reported as
\* completed).
C6_OutcomeIsTold ==
    [][\A t \in Requests :
         Returns(t) =>
            IF tpc'[t] = "failed"
            THEN scraping_status'.completed = "False" /\ scraping_status'.error # Unset
            ELSE IF Len(results[t]) = Len(vehicle_numbers[t])
                 THEN scraping_status'.completed = "True"
                 ELSE scraping_status'.completed # "True"]_vars

\* C7: between two accepted starts the exposed Record list only grows, and the
\* state a stopped run's thread leaves still holds every Record it collected.
C7_RecordsOnlyGrow ==
    [][/\ scraping_status'.start_time = scraping_status.start_time
            => IsPrefix(scraping_status.results, scraping_status'.results)
       /\ \A t \in Requests :
            (Returns(t) /\ stopAt[t] # NoStop)
                => IsPrefix(results[t], scraping_status'.results)]_vars

\* C8: the number of fetches in flight never exceeds the concurrency limit
\* configured for any of the runs fetching.
C8_InFlightWithinLimit ==
    \A t \in InFlight : Cardinality(InFlight) <= max_workers[t]

\* a fetch that fails: the call raised, the status is not 200, or the page
\* cannot be parsed
Fails(reply) ==
    reply.raised \/ reply.status_code # HTTP_OK \/ ~reply.text.parsable

C10_RunTerminates ==
    \A t \in Requests :
        Live(t) ~> (tpc[t] \in {"done", "failed"} /\ ~scraping_status.is_running)

\* a thread returned through the except branch and the flag is down
C10_Witness ==
    \E t \in Requests :
        /\ tpc[t] = "failed"
        /\ ~scraping_status.is_running
        /\ scraping_status.error # Unset

\* C11: a stop request made when no run is active changes no field of
\* scraping_status (and nothing else), and every stop request leaves the
\* running flag down, so that a second stop request right after it is such a
\* request and changes nothing: two in a row leave the state one leaves.
C11_StopIsNoOpWhenIdleAndIdempotent ==
    [][cancel_scraping =>
          /\ ~scraping_status.is_running => UNCHANGED vars
          /\ ~scraping_status'.is_running
          /\ scraping_status' = [scraping_status EXCEPT !.is_running = FALSE]]_vars

\* a stop request was accepted for a run whose thread has not returned: the
\* flag is down, and a stop request made now is the second in a row
C11_Witness ==
    /\ ~scraping_status.is_running
    /\ \E t \in Requests : Live(t) /\ stopAt[t] # NoStop /\ scraping_status.start_time = t

\* C12: a start request whose form is invalid is rejected before the run
\* starts: no run_scraping_task thread runs with a concurrency outside
\* MIN_WORKERS..MAX_WORKERS, with a negative delay or with no key.
C12_InvalidConfigIsRejected ==
    \A t \in Requests :
        Live(t) =>
            /\ max_workers[t] \in MIN_WORKERS..MAX_WORKERS
            /\ delay[t] >= 0
            /\ vehicle_numbers[t] # <<>>

\* C13: the list process_vehicles returns is in input order whatever order the
\* fetches complete in: its j-th Record is the Record of the j-th submitted key.
C13_ResultsInInputOrder ==
    PoolReturned =>
        /\ Len(process_results) = Len(future_to_vehicle)
        /\ \A j \in 1..Len(process_results) :
              process_results[j].vehicle_number = future_to_vehicle[j].vehicle_number

\* C14: whenever the lock is free the processed count (progress) equals the
\* number of Records collected for the run (the length of the exposed list),
\* in the state a cancelled run's thread leaves too.
C14_ProgressCountsRecords ==
    scraping_status.progress = Len(scraping_status.results)

\* the statuses a dict of get_vehicle_info carries
Statuses == {"success", "failed", "parse_error"}

\* C15: every Record get_vehicle_info returns has one of the three statuses,
\* and holds an error message (the 'error' key, with a text) exactly when its
\* status is a failure status.
C15_ErrorIffFailure ==
    result # Pending =>
        /\ result.status \in Statuses
        /\ result.status \in {"failed", "parse_error"}
              => (result.error # Unset /\ result.error # "")
        /\ result.status = "success" => result.error = Unset

\* a page the parser raised on came back as a parse-failure Record with its message
C15_Witness ==
    /\ result # Pending
    /\ ~response.raised /\ response.status_code = HTTP_OK /\ ~response.text.parsable
    /\ result.status = "parse_error"
    /\ result.error = "HTML parsing failed"

\* the site's label table: the field each label text (lower case) is for
LabelField ==
    [text \in {"name of the absolute ownership", "mortgage if any", "engine number",
               "vehicle class", "conditions and notes", "make", "model",
               "year of manufacture"} |->
        CASE text \in {"name of the absolute ownership", "mortgage if any"}
                 -> "name_of_ownership"
          [] text = "engine number" -> "engine_number"
          [] text = "vehicle class" -> "vehicle_class"
          [] text = "conditions and notes" -> "conditions_and_notes"
          [] text = "make" -> "make"
          [] text = "model" -> "model"
          [] text = "year of manufacture" -> "year_of_manufacture"]

\* the label texts of the model's label cells, in lower case
LabelText == [label \in Labels |-> lower(strip(label))]

\* the field a table row is for: that of its label, in any letter case, when
\* the row has its three cells and the label is one of the table; else ""
RowField(cells) ==
    IF Len(cells) >= 3 /\ cells[1] \in Labels /\ LabelText[cells[1]] \in DOMAIN LabelField
    THEN LabelField[LabelText[cells[1]]]
    ELSE ""

\* the rows of the answered page that are for field f
RowsFor(f) ==
    { k \in 1..Len(response.text.rows) : RowField(response.text.rows[k]) = f }

\* the call has returned the parse of a page the parser walked
Parsed ==
    /\ result # Pending
    /\ ~response.raised
    /\ response.status_code = HTTP_OK
    /\ response.text.parsable

\* C17: when several rows of a page are for the same field, the field holds
\* the value of the first of them.
C17_FirstRowWins ==
    Parsed =>
        \A f \in Fields :
            RowsFor(f) # {} =>
                LET first == CHOOSE k \in RowsFor(f) : \A j \in RowsFor(f) : k <= j
                IN result[f] = strip(response.text.rows[first][3])

\* C18: a row labelled "Year of Manufacture", in any letter case, puts its
\* value in year_of_manufacture and never in make: make holds the value of a
\* row labelled "Make" and is empty when the page has none.
C18_YearOfManufactureIsNotMake ==
    Parsed =>
        /\ RowsFor("year_of_manufacture") # {} =>
              \E k \in RowsFor("year_of_manufacture") :
                  result.year_of_manufacture = strip(response.text.rows[k][3])
        /\ IF RowsFor("make") = {} THEN result.make = ""
           ELSE \E k \in RowsFor("make") : result.make = strip(response.text.rows[k][3])

\* a page with a YEAR OF MANUFACTURE row and no Make row was parsed
C18_Witness ==
    /\ Parsed
    /\ \E k \in 1..Len(response.text.rows) :
          response.text.rows[k] = <<"YEAR OF MANUFACTURE", "-", "ABC123">>
    /\ RowsFor("make") = {}
    /\ result.year_of_manufacture = "ABC123"
    /\ result.make = ""

\* C19: for a page made of any rows of the label table, and for a page with
\* no details table, the Record has status success, every field with a row
\* holds the value of a row that is for it (of the row, when there is one),
\* every field without a row is present and is the empty string, and the
\* report date is the text after its label ('' without the label).
C19_PresentFieldsFilledAbsentEmpty ==
    Parsed =>
        /\ result.status = "success"
        /\ result.vehicle_number = vehicle_number
        /\ result.report_date = response.text.report_date
        /\ \A f \in Fields \ {"report_date"} :
              IF RowsFor(f) = {} THEN result[f] = ""
              ELSE \E k \in RowsFor(f) : result[f] = strip(response.text.rows[k][3])

\* the page with an Engine Number row and a Vehicle Class row was parsed
C19_Witness ==
    /\ Parsed
    /\ response.text.rows = << <<"Engine Number", "-", "ABC123">>,
                               <<"Vehicle Class", "-", " Motor Car ">> >>
    /\ response.text.report_date = ""
    /\ result.engine_number = "ABC123"
    /\ result.vehicle_class = "Motor Car"
    /\ \A f \in Fields \ {"engine_number", "vehicle_class"} : result[f] = ""
    /\ result.status = "success"

C16_AccessUnderLock ==
    [][/\ \A f \in Functions :
            (pc[f] \in Accesses /\ pc'[f] # pc[f]) => scraping_lock = f
       /\ scraping_status' # scraping_status =>
            (scraping_lock \in Functions /\ pc'[scraping_lock] # pc[scraping_lock])
       /\ status' # status => status' = committed]_vars

\* get_progress took its copy while the thread stood between two keys, the
\* first Record published
C16_Witness ==
    /\ pc["get_progress"] = "263"
    /\ pc["run_scraping_task"] \in {"201", "202"}
    /\ status # Pending
    /\ status.is_running
    /\ Len(status.results) = 1

\* C21: every key a run's thread has handed to get_vehicle_info and got a
\* Record back for caused exactly one request, in every outcome: the requests
\* the run has made are, one for one and in order, the keys it dispatched.
C21_OneRequestPerDispatchedKey ==
    \A t \in Requests :
        Live(t) =>
            /\ Len(dispatched[t]) = i[t] + (IF tpc[t] = "fetch" THEN 1 ELSE 0)
            /\ posted[t] = SubSeq(dispatched[t], 1, i[t])

\* C22: the ETA shown for a run (the run whose start installed the dict) is
\* None as long as the run's thread has completed no key, and it is set by
\* every dispatch a thread makes after it has completed one.
C22_EtaNullUntilFirstCompletion ==
    [][\A t \in Requests :
         /\ (Live(t) /\ scraping_status.start_time = t /\ i[t] = 0)
               => scraping_status.estimated_time_remaining = <<>>
         /\ (tpc[t] = "loop" /\ tpc'[t] = "fetch" /\ i[t] > 0)
               => scraping_status'.estimated_time_remaining # <<>>]_vars

\* C23: a start request that is accepted installs a dict with is_running True,
\* progress 0, total the number of (distinct) keys of the new run, no current
\* key, no Record, no ETA, and without the keys completed, error, csv_file and
\* json_file, whatever the dict held before.
C23_StartResetsEverything ==
    [][\A r \in Requests :
         (rpc[r] = "checked" /\ rpc'[r] = "started") =>
            /\ scraping_status'.is_running
            /\ scraping_status'.progress = 0
            /\ scraping_status'.total = Len(vehicle_numbers'[r])
            /\ vehicle_numbers'[r] # <<>>
            /\ scraping_status'.current_vehicle = ""
            /\ scraping_status'.results = <<>>
            /\ scraping_status'.estimated_time_remaining = <<>>
            /\ scraping_status'.completed = Unset
            /\ scraping_status'.error = Unset
            /\ scraping_status'.csv_file = Unset
            /\ scraping_status'.json_file = Unset]_vars

\* the second run was accepted after the first had aborted, leaving its error
\* and completed False in the dict, and nothing of it is left
C23_Witness ==
    /\ tpc[1] = "failed"
    /\ rpc[2] = "started"
    /\ tpc[2] = "loop"
    /\ i[2] = 0
    /\ scraping_status = FreshStatus(2, vehicle_numbers[2])

\* C24: a run's thread dispatches its keys in input order: the keys it has
\* dispatched so far are the first keys of its list, in the list's order,
\* each once.
C24_DispatchInInputOrder ==
    \A t \in Requests : Live(t) => IsPrefix(dispatched[t], vehicle_numbers[t])

\* a thread has dispatched both keys of its list, the second in flight
C24_Witness ==
    \E t \in Requests :
        /\ tpc[t] = "fetch"
        /\ vehicle_numbers[t] = <<"A", "B">>
        /\ dispatched[t] = <<"A", "B">>

\* C25: in every worker the call for a key waits (time.sleep) once, before
\* its request and not again, and makes one request; a worker's request waits
\* for its own sleep to return and for nothing else, so no worker's pacing
\* holds back another's request.
C25_PacingOncePerRequest ==
    \A k \in 1..Len(future_to_vehicle) :
        LET f == future_to_vehicle[k]
        IN /\ f.state = "queued" => (f.sleeps = 0 /\ f.posts = 0)
           /\ f.state = "sleeping" => (f.sleeps = 1 /\ f.posts = 0)
           /\ f.state \in {"requesting", "finished", "yielded"}
                 => (f.sleeps = 1 /\ f.posts = 1)
           /\ (ENABLED WorkerPosts(k)) <=> f.state = "sleeping"

\* two workers have each slept once and have their requests in flight together
C25_Witness ==
    \E j, k \in 1..Len(future_to_vehicle) :
        /\ j # k
        /\ future_to_vehicle[j].state = "requesting"
        /\ future_to_vehicle[k].state = "requesting"
        /\ future_to_vehicle[j].sleeps = 1
        /\ future_to_vehicle[k].sleeps = 1

\* the run whose start installed the dict is live and no stop was accepted for it
Current(r) == scraping_status.start_time = r /\ Live(r) /\ stopAt[r] = NoStop

\* C26: once a run has been stopped and a later start has been accepted, no
\* step of the stopped run's thread changes the dict, which is the new run's
\* (current key, progress, Records, running flag, completion flag), and the
\* thread dispatches no further key.
C26_StoppedTaskLeavesNewRunAlone ==
    [][\A t, r \in Requests :
         (t # r /\ stopAt[t] # NoStop /\ Current(r) /\ tpc'[t] # tpc[t]) =>
            /\ scraping_status' = scraping_status
            /\ tpc'[t] # "fetch"]_vars

\* C27: progress is always between 0 and total, and total changes only in
\* the step of an accepted start.
C27_ProgressWithinTotal ==
    [][/\ scraping_status'.progress \in 0..scraping_status'.total
       /\ scraping_status'.total # scraping_status.total
             => \E r \in Requests : rpc[r] = "checked" /\ rpc'[r] = "started"]_vars

\* the keys of the dict that tell how far a run got and how it ended
Shown == {"is_running", "total", "progress", "current_vehicle", "results", "error"}

\* C28: every answer of get_progress shows the copy it took of the dict
\* (running flag, total, progress, current key, Records, error), after a run
\* ended in the except branch and after a stop request too.
C28_SnapshotShowsRunState ==
    [][(pc["get_progress"] = "263" /\ pc'["get_progress"] # "263")
          => \A key \in Shown : answer'[key] = status[key]]_vars

====
